---- MODULE Spec2Model ----
(***************************************************************************)
(* Model of the Baitoru scraping tools.                                    *)
(*   src/fetch_info_baitoru.py : the crawl of listing and job pages that   *)
(*                               collects company ids (crawl fetcher)      *)
(*   src/baitoru_scraper.py    : the batch scraper of company profile      *)
(*                               pages (profile fetcher)                   *)
(* A behaviour runs one of the two programs (prog).  Both programs call    *)
(* their own fetch_html; the two variants share the fetcher variables.     *)
(***************************************************************************)
EXTENDS Integers, Sequences, FiniteSets, TLC

\* ---------------------------------------------------------------- bounds
NumJobURLs == 2
NumIds == 2
MaxListingPagesBound == 2
MaxJobPagesBound == 2
MaxUrls == 2
NumProfileURLs == 2
MaxAnchors == 2
MaxRows == 2
MaxAddressLen == 4

\* ------------------------------------------------------ program constants
MAX_RETRIES == 3
BASE_BACKOFF_SEC == 3

\* ------------------------------------------------------------ value sets
\* One listing URL more than the largest page limit, so that the limit can
\* stop a chain of new pages.
NumListingURLs == MaxListingPagesBound + 1
NoURL == 0                       \* None / "" for a listing or job URL
ListingURLs == 1..NumListingURLs
JobURLs == 101..(100 + NumJobURLs)
Ids == 1..NumIds
NoId == 0
start_listing_url == 1
ProfileURLs == 201..(200 + NumProfileURLs)
\* A next-page link is any href: it may also name a URL that a listing page
\* lists as a job link.
AllURLs == ListingURLs \cup JobURLs
Roles == {"listing", "job"}

\* What one HTTP request can produce.
TransportErrors == {"conn", "timeout"}
BadStatuses == {"status404"}
Outcomes == {"ok200", "ok200empty", "ok204"} \cup BadStatuses \cup TransportErrors
NoOutcome == "no_request"

\* Values of fetch_html's result: None, the empty text, a non-empty markup.
NoneVal == "None"
EmptyText == "empty"
Markup == "html"

\* Python truthiness of a fetch result ("if not html").
Falsy(r) == r \in {NoneVal, EmptyText}

\* resp.text of a response that carries a status the fetcher accepts.
BodyOf(o) == IF o = "ok200" THEN Markup ELSE EmptyText

VARIABLES
  site,                  \* "any" | "scenario": the pages the server holds
  prog,                  \* "crawl" | "scrape": which program runs
  pc,                    \* position of the running program
  \* --- fetch_html (either variant), one call at a time
  f_variant, f_pc, f_url, f_i, f_requests, f_sleeps,
  f_nTransport, f_nBadStatus, f_last, f_result,
  \* --- crawl_baitoru_company_ids
  max_listing_pages, max_job_pages,
  company_infos, visited_listing_urls, visited_job_urls,
  listing_url, current_listing_url, listing_count,
  job_links, next_url, job_url, returned,
  \* --- crawl history
  stop_reason, last_merge, fetch_count, since_fetch, last_gap,
  \* --- scrape_many_company_pages
  urls, s_idx, results, s_sleeps,
  \* --- scrape history: the URLs scrape_company_page was called with, and
  \* whether the call returned
  attempted

fetchVars == <<f_variant, f_pc, f_url, f_i, f_requests, f_sleeps,
               f_nTransport, f_nBadStatus, f_last, f_result>>
crawlVars == <<max_listing_pages, max_job_pages,
               company_infos, visited_listing_urls, visited_job_urls,
               listing_url, current_listing_url, listing_count,
               job_links, next_url, job_url, returned>>
histVars == <<stop_reason, last_merge, fetch_count, since_fetch, last_gap>>
scrapeVars == <<urls, s_idx, results, s_sleeps, attempted>>
\* --- extract_job_links_from_listing_html, save_to_csv, extract_prefecture
VARIABLES
  base_url, anchors, links,
  rows, csv_file,
  address_text, prefecture
pureVars == <<base_url, anchors, links, rows, csv_file, address_text, prefecture>>
vars == <<site, prog, pc, fetchVars, crawlVars, histVars, scrapeVars, pureVars>>

\* ------------------------------------------------------------ the server
\* The seed listing page of the scenario has anchors of two company ids, one
\* job link and no next-page anchor; the company anchor of its job page
\* points to a third id.
ScenarioListingIds == {1, 2}
ScenarioThirdId == NumIds + 1

\* The outcomes the server can give to request number i + 1 of a call: any
\* outcome, or, in the scenario, the page, after transport errors that end
\* within the retries.
ServedOutcomes(where, i) ==
  IF where = "scenario"
    THEN {"ok200"} \cup (IF i < MAX_RETRIES - 1 THEN TransportErrors ELSE {})
    ELSE Outcomes

RECURSIVE SumSeq(_)
SumSeq(s) == IF s = <<>> THEN 0 ELSE Head(s) + SumSeq(Tail(s))

\* ================================================================ fetcher
\* Is the outcome of one request a requests.RequestException inside the
\* try block?  Crawl fetcher: only session.get can raise.  Profile fetcher:
\* resp.raise_for_status() raises HTTPError, a RequestException, for a bad
\* status, so the same handler catches it.
RaisesRequestException(variant, o) ==
  IF variant = "crawl"
    THEN o \in TransportErrors
    ELSE o \in TransportErrors \cup BadStatuses

\* The value returned by the try block when nothing was raised.
\* Crawl fetcher: the text only for status 200, None for every other status.
\* Profile fetcher: the text of every response that passed raise_for_status.
ReturnedValue(variant, o) ==
  IF variant = "crawl"
    THEN (IF o \in {"ok200", "ok200empty"} THEN BodyOf(o) ELSE NoneVal)
    ELSE BodyOf(o)

\* Mutant: the same sleep before every retry, no linear growth.
BackoffSleepsConstant(variant, i) ==
  IF variant = "crawl"
    THEN <<BASE_BACKOFF_SEC>>
    ELSE (IF i < MAX_RETRIES - 1 THEN <<BASE_BACKOFF_SEC>> ELSE <<>>)

\* The backoff sleeps of the except block of iteration i (0-based).
\* Crawl fetcher sleeps after every caught exception; the profile fetcher
\* only when another attempt follows.
BackoffSleeps(variant, i) ==
  IF variant = "crawl"
    THEN <<BASE_BACKOFF_SEC * (i + 1)>>
    ELSE (IF i < MAX_RETRIES - 1 THEN <<BASE_BACKOFF_SEC * (i + 1)>> ELSE <<>>)

\* Mutant: both fetchers re-raise the last exception.
ExhaustedExitRaise(variant) == "raised"

\* What happens when the for loop ran out of attempts: the crawl fetcher
\* returns None, the profile fetcher re-raises the last exception.
ExhaustedExit(variant) ==
  IF variant = "crawl" THEN "returned" ELSE "raised"

\* The fetcher variables of a call that has not made a request yet.
CallFetch(variant, url) ==
  /\ f_variant' = variant
  /\ f_pc' = "loop"
  /\ f_url' = url
  /\ f_i' = 0
  /\ f_requests' = 0
  /\ f_sleeps' = <<>>
  /\ f_nTransport' = 0
  /\ f_nBadStatus' = 0
  /\ f_last' = NoOutcome
  /\ f_result' = NoneVal

\* The caller has taken the result: no call is in progress.
FetchIdle ==
  /\ f_variant' = "none"
  /\ f_pc' = "idle"
  /\ f_url' = NoURL
  /\ f_i' = 0
  /\ f_requests' = 0
  /\ f_sleeps' = <<>>
  /\ f_nTransport' = 0
  /\ f_nBadStatus' = 0
  /\ f_last' = NoOutcome
  /\ f_result' = NoneVal

\* One iteration of "for i in range(MAX_RETRIES)": the request, and either
\* the return or the except block with its sleep.
FetchAttempt ==
  /\ f_pc = "loop"
  /\ f_i < MAX_RETRIES
  /\ \E o \in ServedOutcomes(site, f_i) :
       /\ f_requests' = f_requests + 1
       /\ f_last' = o
       /\ f_nTransport' = f_nTransport + (IF o \in TransportErrors THEN 1 ELSE 0)
       /\ f_nBadStatus' = f_nBadStatus + (IF o \in BadStatuses THEN 1 ELSE 0)
       /\ IF RaisesRequestException(f_variant, o)
            THEN /\ f_sleeps' = f_sleeps \o BackoffSleeps(f_variant, f_i)
                 /\ f_i' = f_i + 1
                 /\ UNCHANGED <<f_pc, f_result>>
            ELSE /\ f_pc' = "returned"
                 /\ f_result' = ReturnedValue(f_variant, o)
                 /\ UNCHANGED <<f_sleeps, f_i>>
  /\ UNCHANGED <<f_variant, f_url>>
  /\ UNCHANGED <<site, pureVars, prog, pc, crawlVars, histVars, scrapeVars>>

\* The code after the for loop.
FetchExhausted ==
  /\ f_pc = "loop"
  /\ f_i >= MAX_RETRIES
  /\ f_pc' = ExhaustedExit(f_variant)
  /\ f_result' = NoneVal
  /\ UNCHANGED <<f_variant, f_url, f_i, f_requests, f_sleeps,
                 f_nTransport, f_nBadStatus, f_last>>
  /\ UNCHANGED <<site, pureVars, prog, pc, crawlVars, histVars, scrapeVars>>

\* ========================================================== crawl: values
\* A company URL is kept by what distinguishes it as a string: the shape of
\* its host and path, the id in its path, and (for a relative link) the job
\* URL it was resolved against.
\*   "canon"    https://www.baitoru.com/cjlist<id>/
\*   "offsite"  https://<other host>/cjlist<id>/
\*   "relative" https://www.baitoru.com/<path of the job page>/cjlist<id>/
\*   "noid"     a URL whose path holds no /cjlist<digits>/
\*   "none"     no URL (None)
CompanyUrl(form, id, base) == [form |-> form, id |-> id, base |-> base]
NoCompanyUrl == CompanyUrl("none", NoId, NoURL)

\* f"https://{BASE_DOMAIN}/cjlist{cid}/"
CanonicalUrl(cid) == CompanyUrl("canon", cid, NoURL)

\* The href of the "more about this company" anchor of a job page.
\*   "abs"      /cjlist<id>/#comp
\*   "offsite"  https://<other host>/cjlist<id>/
\*   "relative" cjlist<id>/        (no leading slash)
\*   "noid"     an href without a company id
\*   "none"     the page has no such anchor
Href(kind, id) == [kind |-> kind, id |-> id]
NoLink == Href("none", NoId)
CompanyLinks ==
  {Href(k, i) : k \in {"abs", "offsite", "relative"}, i \in Ids}
    \cup {Href("noid", NoId), NoLink}

\* extract_company_url_from_job_html: urljoin(job_url, href), then the
\* scheme, host and path of the result without query and fragment.
extract_company_url_from_job_html(link, job) ==
  CASE link.kind = "none" -> NoCompanyUrl
    [] link.kind = "abs" -> CompanyUrl("canon", link.id, NoURL)
    [] link.kind = "offsite" -> CompanyUrl("offsite", link.id, NoURL)
    [] link.kind = "relative" -> CompanyUrl("relative", link.id, job)
    [] OTHER -> CompanyUrl("noid", NoId, NoURL)

\* CJLIST_RE.search(urlparse(company_url).path): the id, or NoId.
PathId(company_url) == company_url.id

\* The ids extract_cjlist_ids_from_html finds in the company anchor itself:
\* the pattern needs the slash before "cjlist", which the relative href
\* lacks.
RawIds(link) ==
  IF link.kind \in {"abs", "offsite"} THEN {link.id} ELSE {}

\* The company ids, job links and next-page link a fetched listing page can
\* hold.
ListingIdSets(where) ==
  IF where = "scenario" THEN {ScenarioListingIds} ELSE SUBSET Ids
ListingLinkSets(where) ==
  IF where = "scenario" THEN {{j} : j \in JobURLs} ELSE SUBSET JobURLs
NextLinks(where) ==
  IF where = "scenario" THEN {NoURL} ELSE AllURLs \cup {NoURL}

\* The company ids of the other anchors and the company anchor a fetched job
\* page can hold.
JobAnchorSets(where) ==
  IF where = "scenario" THEN {{}} ELSE SUBSET Ids
JobCompanyLinks(where) ==
  IF where = "scenario"
    THEN {Href(k, ScenarioThirdId) : k \in {"abs", "offsite", "relative"}}
    ELSE CompanyLinks

\* One registry entry.
Entry(cid, company_url, job, listing) ==
  [company_id |-> cid, company_url |-> company_url,
   source_job_url |-> job, source_listing_url |-> listing]

\* list(company_infos.values())
Values(infos) == {infos[c] : c \in DOMAIN infos}

\* Mutant: the ids of a page are not registered.
RegisterNothing(infos, ids, job, listing) == infos

\* Registration of the ids of a page that are not yet in the registry.
Register(infos, ids, job, listing) ==
  [c \in DOMAIN infos \cup ids |->
     IF c \in DOMAIN infos THEN infos[c]
     ELSE Entry(c, CanonicalUrl(c), job, listing)]

\* The entry company_infos.setdefault gives for an id that is not registered.
MergeDefault(cid, company_url, job, listing) ==
  Entry(cid, company_url, job, listing)

\* Mutant: the job URL of the latest observation always replaces the stored one.
MergeUpdateOverwriteJob(info, company_url, job, listing) ==
  [info EXCEPT
     !.company_url = company_url,
     !.source_job_url = job,
     !.source_listing_url = IF @ = NoURL THEN listing ELSE @]

\* Mutant: the URL of a registered entry is kept (setdefault only).
MergeUpdateKeepUrl(info, company_url, job, listing) ==
  [info EXCEPT
     !.source_job_url = IF @ = NoURL THEN job ELSE @,
     !.source_listing_url = IF @ = NoURL THEN listing ELSE @]

\* The update of the entry after setdefault.
MergeUpdate(info, company_url, job, listing) ==
  [info EXCEPT
     !.company_url = company_url,
     !.source_job_url = IF @ = NoURL THEN job ELSE @,
     !.source_listing_url = IF @ = NoURL THEN listing ELSE @]

\* Mutant: an if/else in place of setdefault, whose insert branch copies the
\* entry of the listing registration (empty source_job_url) and skips the
\* update.
MergeInsertOrUpdate(infos, cid, company_url, job, listing) ==
  IF cid \in DOMAIN infos
    THEN [infos EXCEPT ![cid] = MergeUpdate(infos[cid], company_url, job, listing)]
    ELSE [c \in DOMAIN infos \cup {cid} |->
            IF c \in DOMAIN infos THEN infos[c]
            ELSE Entry(cid, company_url, NoURL, listing)]

\* The merge of a company link of a job page into the registry.
Merge(infos, cid, company_url, job, listing) ==
  LET base == [c \in DOMAIN infos \cup {cid} |->
                 IF c \in DOMAIN infos THEN infos[c]
                 ELSE MergeDefault(cid, company_url, job, listing)]
  IN [base EXCEPT ![cid] = MergeUpdate(base[cid], company_url, job, listing)]

MergeTuple(cid, company_url, job, listing) ==
  [cid |-> cid, company_url |-> company_url,
   job_url |-> job, listing_url |-> listing]
NoMerge == MergeTuple(NoId, NoCompanyUrl, NoURL, NoURL)

\* Mutant: the page limit is tested with <=.
LoopGuardOffByOne(url, count, max) == url # NoURL /\ count <= max

\* "while listing_url and listing_count < max_listing_pages"
LoopGuard(url, count, max) == url # NoURL /\ count < max

\* Mutant: the job page limit is tested with >.
JobLimitReachedOffByOne(visited, max) == Cardinality(visited) > max

\* Mutant: no job link counts as visited.
JobVisitedNever(j, visited) == FALSE

\* "if job_url in visited_job_urls: continue"
JobVisited(j, visited) == j \in visited

\* "if len(visited_job_urls) >= max_job_pages: break"
JobLimitReached(visited, max) == Cardinality(visited) >= max

\* Mutant: "continue" in place of "break".
VisitedListingContinue == "while"

\* Where "break" on an already visited listing URL leads.
VisitedListingExit == "done"

\* Mutant: a failed job fetch abandons the job links of the page.
FailedJobAbandon == "while"

\* Where a failed job fetch ("continue") leads.
FailedJobExit == "for"

\* ========================================================= crawl: actions
\* A call of fetch_html from the crawl, with the bookkeeping of the history.
CrawlFetch(role, url) ==
  /\ CallFetch("crawl", url)
  /\ fetch_count' = [fetch_count EXCEPT ![role][url] = @ + 1]
  /\ last_gap' = since_fetch
  /\ since_fetch' = "unslept"

\* time.sleep(random.uniform(sleep_min, sleep_max))
PolitenessSleep == since_fetch' = "slept"

\* The head of the while loop up to the listing fetch, or the return when
\* the loop ends.
WhileTest ==
  /\ prog = "crawl"
  /\ pc = "while"
  /\ last_merge' = NoMerge
  /\ IF LoopGuard(listing_url, listing_count, max_listing_pages)
       THEN /\ current_listing_url' = listing_url
            /\ IF listing_url \in visited_listing_urls
                 THEN /\ pc' = VisitedListingExit
                      /\ stop_reason' =
                           IF VisitedListingExit = "done" THEN "visited" ELSE stop_reason
                      /\ returned' =
                           IF VisitedListingExit = "done" THEN Values(company_infos) ELSE returned
                      /\ UNCHANGED <<visited_listing_urls, listing_count, fetchVars,
                                     fetch_count, since_fetch, last_gap>>
                 ELSE /\ visited_listing_urls' = visited_listing_urls \cup {listing_url}
                      /\ listing_count' = listing_count + 1
                      /\ CrawlFetch("listing", listing_url)
                      /\ pc' = "listing_fetching"
                      /\ UNCHANGED <<stop_reason, returned>>
       ELSE /\ pc' = "done"
            /\ stop_reason' = "guard"
            /\ returned' = Values(company_infos)
            /\ UNCHANGED <<current_listing_url, visited_listing_urls, listing_count,
                           fetchVars, fetch_count, since_fetch, last_gap>>
  /\ UNCHANGED <<site, pureVars, prog, max_listing_pages, max_job_pages, company_infos,
                 visited_job_urls, listing_url, job_links, next_url, job_url,
                 scrapeVars>>

\* The listing fetch has returned: stop on a failed fetch, else register the
\* ids of the page and take its job links and its next-page URL.
ListingFetched ==
  /\ prog = "crawl"
  /\ pc = "listing_fetching"
  /\ f_pc = "returned"
  /\ FetchIdle
  /\ last_merge' = NoMerge
  /\ IF Falsy(f_result)
       THEN /\ pc' = "done"
            /\ stop_reason' = "fetch_failed"
            /\ returned' = Values(company_infos)
            /\ UNCHANGED <<company_infos, job_links, next_url>>
       ELSE /\ \E ids_on_listing \in ListingIdSets(site),
                  lnks \in ListingLinkSets(site), nxt \in NextLinks(site) :
                    /\ company_infos' =
                         Register(company_infos, ids_on_listing, NoURL, current_listing_url)
                    /\ job_links' = lnks
                    /\ next_url' = nxt
            /\ pc' = "for"
            /\ UNCHANGED <<stop_reason, returned>>
  /\ UNCHANGED <<site, pureVars, prog, max_listing_pages, max_job_pages, visited_listing_urls,
                 visited_job_urls, listing_url, current_listing_url, listing_count,
                 job_url, fetch_count, since_fetch, last_gap, scrapeVars>>

\* The for loop over the job links ends (no link left, or the job page
\* limit): the sleep after the listing page and "listing_url = next_url".
ForExit ==
  /\ prog = "crawl"
  /\ pc = "for"
  /\ job_links = {} \/ JobLimitReached(visited_job_urls, max_job_pages)
  /\ PolitenessSleep
  /\ listing_url' = next_url
  /\ job_links' = {}
  /\ pc' = "while"
  /\ last_merge' = NoMerge
  /\ UNCHANGED <<site, pureVars, prog, fetchVars, max_listing_pages, max_job_pages, company_infos,
                 visited_listing_urls, visited_job_urls, current_listing_url,
                 listing_count, next_url, job_url, returned,
                 stop_reason, fetch_count, last_gap, scrapeVars>>

\* A job link that was already visited is skipped.
ForSkipVisited ==
  /\ prog = "crawl"
  /\ pc = "for"
  /\ ~JobLimitReached(visited_job_urls, max_job_pages)
  /\ \E j \in job_links :
       /\ JobVisited(j, visited_job_urls)
       /\ job_links' = job_links \ {j}
       /\ job_url' = j
  /\ last_merge' = NoMerge
  /\ UNCHANGED <<site, pureVars, prog, pc, fetchVars, max_listing_pages, max_job_pages, company_infos,
                 visited_listing_urls, visited_job_urls, listing_url,
                 current_listing_url, listing_count, next_url, returned,
                 stop_reason, fetch_count, since_fetch, last_gap, scrapeVars>>

\* A job link that was not visited is marked visited and fetched.
ForFetchJob ==
  /\ prog = "crawl"
  /\ pc = "for"
  /\ ~JobLimitReached(visited_job_urls, max_job_pages)
  /\ \E j \in job_links :
       /\ ~JobVisited(j, visited_job_urls)
       /\ job_links' = job_links \ {j}
       /\ job_url' = j
       /\ visited_job_urls' = visited_job_urls \cup {j}
       /\ CrawlFetch("job", j)
  /\ pc' = "job_fetching"
  /\ last_merge' = NoMerge
  /\ UNCHANGED <<site, pureVars, prog, max_listing_pages, max_job_pages, company_infos,
                 visited_listing_urls, listing_url, current_listing_url,
                 listing_count, next_url, returned, stop_reason, scrapeVars>>

\* The job fetch has returned: a failed fetch is skipped without a sleep;
\* else the ids of the page are registered, the company link is merged and
\* the politeness sleep follows.
JobFetched ==
  /\ prog = "crawl"
  /\ pc = "job_fetching"
  /\ f_pc = "returned"
  /\ FetchIdle
  /\ IF Falsy(f_result)
       THEN /\ pc' = FailedJobExit
            /\ last_merge' = NoMerge
            /\ UNCHANGED <<company_infos, since_fetch>>
       ELSE /\ \E others \in JobAnchorSets(site), link \in JobCompanyLinks(site) :
                 LET ids_on_job == others \cup RawIds(link)
                     registered == Register(company_infos, ids_on_job, job_url,
                                            current_listing_url)
                     company_url == extract_company_url_from_job_html(link, job_url)
                     cid == PathId(company_url)
                 IN IF company_url # NoCompanyUrl /\ cid # NoId
                      THEN /\ company_infos' =
                                Merge(registered, cid, company_url, job_url,
                                      current_listing_url)
                           /\ last_merge' =
                                MergeTuple(cid, company_url, job_url, current_listing_url)
                      ELSE /\ company_infos' = registered
                           /\ last_merge' = NoMerge
            /\ PolitenessSleep
            /\ pc' = "for"
  /\ UNCHANGED <<site, pureVars, prog, max_listing_pages, max_job_pages, visited_listing_urls,
                 visited_job_urls, listing_url, current_listing_url, listing_count,
                 job_links, next_url, job_url, returned, stop_reason,
                 fetch_count, last_gap, scrapeVars>>

\* ======================================================== scrape: actions
\* The row scrape_company_page builds from a fetched page.
Row(url, html) == [url |-> url, html |-> html]

\* Mutant: the first failed URL ends the batch.
FailedUrlAbort == "s_done"

\* "except Exception as exc: print(...)": the loop goes on with the next URL.
FailedUrlExit == "s_for"

\* The for loop of scrape_many_company_pages: the next URL is fetched by
\* scrape_company_page, or the results are returned.
ScrapeNext ==
  /\ prog = "scrape"
  /\ pc = "s_for"
  /\ IF s_idx <= Len(urls)
       THEN /\ CallFetch("profile", urls[s_idx])
            /\ pc' = "s_fetching"
       ELSE /\ pc' = "s_done"
            /\ UNCHANGED fetchVars
  /\ UNCHANGED <<site, pureVars, prog, crawlVars, histVars, scrapeVars>>

\* The fetch has returned or raised: a row is appended, or the exception is
\* caught; the sleep of the finally block follows in both cases.
ScrapeFetched ==
  /\ prog = "scrape"
  /\ pc = "s_fetching"
  /\ f_pc \in {"returned", "raised"}
  /\ FetchIdle
  /\ results' = IF f_pc = "returned"
                  THEN Append(results, Row(urls[s_idx], f_result))
                  ELSE results
  /\ attempted' = Append(attempted, [url |-> f_url, ok |-> f_pc = "returned"])
  /\ s_sleeps' = s_sleeps + 1
  /\ s_idx' = s_idx + 1
  /\ pc' = IF f_pc = "returned" THEN "s_for" ELSE FailedUrlExit
  /\ UNCHANGED <<site, pureVars, prog, urls, crawlVars, histVars>>

\* ===================================== extract_job_links_from_listing_html
\* A URL or an href, as urlparse splits it: scheme, netloc and path; "" is an
\* absent part. A path is rooted (it starts with a slash) or not, and has
\* segments.
BASE_DOMAIN == "www.baitoru.com"
OtherHost == "other.example"
Path(rooted, segs) == [rooted |-> rooted, segs |-> segs]
Url(scheme, host, path) == [scheme |-> scheme, host |-> host, path |-> path]
EmptyPath == Path(FALSE, <<>>)

\* "a = li.find('a', href=True); if not a: continue": a list item without an
\* anchor that has an href.
NoAnchor == Url("noanchor", "", EmptyPath)

\* The hrefs of the anchors of a listing page:
\*   /job1/ https:/job1/ mailto:/job1/ job1/ https:job1/ //host/job1/
\*   https://host/job1/ and the like, and the same with /about/ or no path.
HrefPaths ==
  {Path(TRUE, <<"job1">>), Path(FALSE, <<"job1">>), Path(TRUE, <<"about">>),
   EmptyPath}
Hrefs ==
  {Url(sc, h, p) : sc \in {"", "https", "mailto"},
                   h \in {"", BASE_DOMAIN, OtherHost}, p \in HrefPaths}
    \ {Url(sc, h, Path(FALSE, <<"job1">>)) : sc \in {"", "https", "mailto"},
                                              h \in {BASE_DOMAIN, OtherHost}}

\* The URLs of the listing pages the hrefs are resolved against.
BaseUrls ==
  {Url(sc, h, Path(TRUE, <<"jlist">>)) : sc \in {"https", "http"},
                                         h \in {BASE_DOMAIN, OtherHost}}

\* urllib.parse.uses_relative, as far as the schemes of the model go.
uses_relative == {"", "http", "https"}

\* The path part of urljoin: an empty path gives the path of the base, a
\* rooted path stays, another path is appended to the directory of the base.
ResolvePath(bpath, path) ==
  IF path = EmptyPath THEN bpath
  ELSE IF path.rooted THEN path
  ELSE Path(TRUE, bpath.segs \o path.segs)

\* urljoin(base_url, href): an href with another scheme than the base, or
\* with a scheme that has no relative form, is returned as it is; otherwise
\* a host of the href is kept and an absent one is taken from the base.
urljoin(base, href) ==
  LET scheme == IF href.scheme = "" THEN base.scheme ELSE href.scheme
  IN IF href = Url("", "", EmptyPath) THEN base
     ELSE IF scheme # base.scheme \/ scheme \notin uses_relative THEN href
     ELSE IF href.host # "" THEN Url(scheme, href.host, href.path)
     ELSE Url(scheme, base.host, ResolvePath(base.path, href.path))

\* "if parsed.netloc and parsed.netloc != BASE_DOMAIN: continue"
WrongDomain(parsed) == parsed.host # "" /\ parsed.host # BASE_DOMAIN

\* JOB_DETAIL_RE.search(parsed.path): a job segment that follows a slash.
JobDetailMatch(path) ==
  \E i \in 1..Len(path.segs) :
    /\ path.segs[i] \in {"job1", "jobview", "detail"}
    /\ path.rooted \/ i > 1

\* One pass of "for li in soup.select('ul.ul01 li.li01')".
JobLinksStep ==
  /\ prog = "extract_job_links"
  /\ pc = "jl_for"
  /\ anchors # <<>>
  /\ LET a == Head(anchors)
         abs_url == urljoin(base_url, a)
     IN links' = IF a = NoAnchor \/ WrongDomain(abs_url)
                      \/ ~JobDetailMatch(abs_url.path)
                   THEN links
                   ELSE links \cup {abs_url}
  /\ anchors' = Tail(anchors)
  /\ UNCHANGED <<site, prog, pc, fetchVars, crawlVars, histVars, scrapeVars,
                 base_url, rows, csv_file, address_text, prefecture>>

\* "return links"
JobLinksReturn ==
  /\ prog = "extract_job_links"
  /\ pc = "jl_for"
  /\ anchors = <<>>
  /\ pc' = "jl_done"
  /\ UNCHANGED <<site, prog, fetchVars, crawlVars, histVars, scrapeVars, pureVars>>

\* ============================================================ save_to_csv
\* FIELDS, the columns of the CSV file, in order (the names are translated).
FIELDS ==
  <<"fetched_at", "source_url", "name", "phone", "prefecture", "address",
    "industry", "corporate_number", "representative", "capital", "revenue",
    "employees", "founded", "business", "homepage">>
FieldSet == {FIELDS[i] : i \in 1..Len(FIELDS)}

\* A value of a row, with the text str() gives for it; None, and the cell of
\* a key the row does not have.
Value(type, text) == [type |-> type, text |-> text]
NoneValue == Value("none", "None")
EmptyString == Value("str", "")
Missing == Value("missing", "")
Cells == {Value("str", "x"), Value("int", "0"), NoneValue, Missing}

\* The rows given to save_to_csv: dicts that have every field but, possibly,
\* the name and the phone, which can also be None or 0, and possibly a key
\* that is no field.
InputRow(name, phone, extra) ==
  LET keys == (FieldSet \ {"name", "phone"})
                \cup (IF name # Missing THEN {"name"} ELSE {})
                \cup (IF phone # Missing THEN {"phone"} ELSE {})
                \cup (IF extra THEN {"memo"} ELSE {})
  IN [k \in keys |-> CASE k = "name" -> name
                       [] k = "phone" -> phone
                       [] OTHER -> Value("str", "x")]
InputRows == {InputRow(n, ph, e) : n \in Cells, ph \in Cells, e \in BOOLEAN}

\* row.get(field, default)
Get(row, field, default) ==
  IF field \in DOMAIN row THEN row[field] ELSE default

\* Mutant: a value that is false (0 as well as None) gives the empty string.
SafeValueTruthy(row, field) ==
  IF Get(row, field, NoneValue).type \in {"none", "int"}
    THEN EmptyString
    ELSE Get(row, field, EmptyString)

\* "row.get(field, '') if row.get(field) is not None else ''"
SafeValue(row, field) ==
  IF Get(row, field, NoneValue) # NoneValue
    THEN Get(row, field, EmptyString)
    ELSE EmptyString

\* writer.writerow(safe_row): the cells of the fields in the order of
\* fieldnames, each value written as its str().
WriteRow(row) ==
  [i \in 1..Len(FIELDS) |-> SafeValue(row, FIELDS[i]).text]

\* "if not rows: ...; return", or the file is opened and the header written.
SaveOpen ==
  /\ prog = "save_to_csv"
  /\ pc = "csv_start"
  /\ IF rows = <<>>
       THEN /\ pc' = "csv_done"
            /\ UNCHANGED csv_file
       ELSE /\ pc' = "csv_rows"
            /\ csv_file' = <<FIELDS>>
  /\ UNCHANGED <<site, prog, fetchVars, crawlVars, histVars, scrapeVars,
                 base_url, anchors, links, rows, address_text, prefecture>>

\* One pass of "for row in rows".
SaveWriteRow ==
  /\ prog = "save_to_csv"
  /\ pc = "csv_rows"
  /\ Len(csv_file) <= Len(rows)
  /\ csv_file' = Append(csv_file, WriteRow(rows[Len(csv_file)]))
  /\ UNCHANGED <<site, prog, pc, fetchVars, crawlVars, histVars, scrapeVars,
                 base_url, anchors, links, rows, address_text, prefecture>>

\* The end of the with block.
SaveClose ==
  /\ prog = "save_to_csv"
  /\ pc = "csv_rows"
  /\ Len(csv_file) > Len(rows)
  /\ pc' = "csv_done"
  /\ UNCHANGED <<site, prog, fetchVars, crawlVars, histVars, scrapeVars, pureVars>>

\* ====================================================== extract_prefecture
\* The characters of an address, by name: those of the prefecture names
\* Kanagawa-ken, Chiba-ken and Tokyo-to, the character "shi" (city) and the
\* line feed. A text is a sequence of characters.
Chars == {"kami", "na", "gawa", "ken", "chi", "ba", "tou", "kyou", "to",
          "shi", "LF"}
Kanagawa == <<"kami", "na", "gawa", "ken">>
Chiba == <<"chi", "ba", "ken">>
Tokyo == <<"tou", "kyou", "to">>

\* None, as an address and as a result.
NoText == <<"None">>

\* The alternatives of PREF_PATTERN that are spelled out, as far as they can
\* be written in Chars, and the dot of "..ken", which matches every
\* character but the line feed.
Literals == <<Tokyo>>
Dot(c) == c # "LF"

\* Whether text continues with word from position i on.
StartsAt(text, word, i) ==
  /\ i + Len(word) - 1 <= Len(text)
  /\ SubSeq(text, i, i + Len(word) - 1) = word

\* The text group 1 matches when the pattern is tried at position i: the
\* first alternative that matches there, or NoText.
MatchAt(text, i) ==
  IF \E k \in 1..Len(Literals) : StartsAt(text, Literals[k], i)
    THEN Literals[CHOOSE k \in 1..Len(Literals) :
                    /\ StartsAt(text, Literals[k], i)
                    /\ \A j \in 1..(k - 1) : ~StartsAt(text, Literals[j], i)]
  ELSE IF /\ i + 2 <= Len(text)
          /\ Dot(text[i])
          /\ Dot(text[i + 1])
          /\ text[i + 2] = "ken"
    THEN SubSeq(text, i, i + 2)
  ELSE NoText

\* PREF_PATTERN.search(text): the match at the leftmost position that has
\* one.
Search(text) ==
  LET hits == {i \in 1..Len(text) : MatchAt(text, i) # NoText}
  IN IF hits = {} THEN NoText
     ELSE MatchAt(text, CHOOSE i \in hits : \A j \in hits : i <= j)

extract_prefecture(text) ==
  IF text = NoText \/ text = <<>> THEN NoText ELSE Search(text)

\* "data['prefecture'] = extract_prefecture(address)"
ExtractPrefecture ==
  /\ prog = "extract_prefecture"
  /\ pc = "pref_start"
  /\ prefecture' = extract_prefecture(address_text)
  /\ pc' = "pref_done"
  /\ UNCHANGED <<site, prog, fetchVars, crawlVars, histVars, scrapeVars,
                 base_url, anchors, links, rows, csv_file, address_text>>

\* ================================================================== spec
\* No pure function is being applied.
InitPure ==
  /\ base_url = <<>>
  /\ anchors = <<>>
  /\ links = {}
  /\ rows = <<>>
  /\ csv_file = <<>>
  /\ address_text = <<>>
  /\ prefecture = <<>>

InitFetch ==
  /\ f_variant = "none"
  /\ f_pc = "idle"
  /\ f_url = NoURL
  /\ f_i = 0
  /\ f_requests = 0
  /\ f_sleeps = <<>>
  /\ f_nTransport = 0
  /\ f_nBadStatus = 0
  /\ f_last = NoOutcome
  /\ f_result = NoneVal

InitCrawlVars ==
  /\ company_infos = <<>>
  /\ visited_listing_urls = {}
  /\ visited_job_urls = {}
  /\ listing_url = start_listing_url
  /\ current_listing_url = NoURL
  /\ listing_count = 0
  /\ job_links = {}
  /\ next_url = NoURL
  /\ job_url = NoURL
  /\ returned = {}
  /\ stop_reason = "none"
  /\ last_merge = NoMerge
  /\ fetch_count = [r \in Roles |-> [u \in AllURLs |-> 0]]
  /\ since_fetch = "first"
  /\ last_gap = "first"

InitScrapeVars ==
  /\ s_idx = 1
  /\ results = <<>>
  /\ s_sleeps = 0
  /\ attempted = <<>>

Init ==
  /\ site = "any"
  /\ InitPure
  /\ InitFetch
  /\ InitCrawlVars
  /\ InitScrapeVars
  /\ \/ /\ prog = "crawl"
        /\ pc = "while"
        /\ max_listing_pages \in 0..MaxListingPagesBound
        /\ max_job_pages \in 0..MaxJobPagesBound
        /\ urls = <<>>
     \/ /\ prog = "scrape"
        /\ pc = "s_for"
        /\ max_listing_pages = 0
        /\ max_job_pages = 0
        /\ urls \in UNION {[1..n -> ProfileURLs] : n \in 0..MaxUrls}

Next ==
  \/ FetchAttempt
  \/ FetchExhausted
  \/ WhileTest
  \/ ListingFetched
  \/ ForExit
  \/ ForSkipVisited
  \/ ForFetchJob
  \/ JobFetched
  \/ ScrapeNext
  \/ ScrapeFetched

Spec == Init /\ [][Next]_vars

\* Every fetch and every sleep returns, and the single thread keeps running.
LiveSpec == Spec /\ WF_vars(Next)

\* The crawl with max_job_pages = 0 and at most one listing page, and the
\* batch scraper: every call of either fetch_html, with little around it.
FetchInit ==
  /\ site = "any"
  /\ InitPure
  /\ InitFetch
  /\ InitCrawlVars
  /\ InitScrapeVars
  /\ \/ /\ prog = "crawl"
        /\ pc = "while"
        /\ max_listing_pages \in {0, 1}
        /\ max_job_pages = 0
        /\ urls = <<>>
     \/ /\ prog = "scrape"
        /\ pc = "s_for"
        /\ max_listing_pages = 0
        /\ max_job_pages = 0
        /\ urls \in UNION {[1..n -> ProfileURLs] : n \in 0..MaxUrls}

FetchNext ==
  \/ FetchAttempt
  \/ FetchExhausted
  \/ WhileTest
  \/ ListingFetched
  \/ ForExit
  \/ ScrapeNext
  \/ ScrapeFetched

FetchSpec == FetchInit /\ [][FetchNext]_vars

\* The crawl of the scenario site, with bounds of at least one page each.
ScenarioInit ==
  /\ site = "scenario"
  /\ InitPure
  /\ InitFetch
  /\ InitCrawlVars
  /\ InitScrapeVars
  /\ prog = "crawl"
  /\ pc = "while"
  /\ max_listing_pages \in 1..MaxListingPagesBound
  /\ max_job_pages \in 1..MaxJobPagesBound
  /\ urls = <<>>

ScenarioNext ==
  \/ FetchAttempt
  \/ WhileTest
  \/ ListingFetched
  \/ ForExit
  \/ ForFetchJob
  \/ JobFetched

ScenarioSpec == ScenarioInit /\ [][ScenarioNext]_vars /\ WF_vars(ScenarioNext)

\* The other programs are at their start and do not run.
InitOthers ==
  /\ site = "any"
  /\ InitFetch
  /\ InitCrawlVars
  /\ InitScrapeVars
  /\ max_listing_pages = 0
  /\ max_job_pages = 0
  /\ urls = <<>>

\* extract_job_links_from_listing_html applied to a listing page of up to
\* MaxAnchors list items and a base URL.
JobLinksInit ==
  /\ InitOthers
  /\ prog = "extract_job_links"
  /\ pc = "jl_for"
  /\ base_url \in BaseUrls
  /\ anchors \in UNION {[1..n -> Hrefs \cup {NoAnchor}] : n \in 0..MaxAnchors}
  /\ links = {}
  /\ rows = <<>>
  /\ csv_file = <<>>
  /\ address_text = <<>>
  /\ prefecture = <<>>

JobLinksNext ==
  \/ JobLinksStep
  \/ JobLinksReturn

JobLinksSpec == JobLinksInit /\ [][JobLinksNext]_vars

\* save_to_csv applied to a list of up to MaxRows rows.
CsvInit ==
  /\ InitOthers
  /\ prog = "save_to_csv"
  /\ pc = "csv_start"
  /\ rows \in UNION {[1..n -> InputRows] : n \in 0..MaxRows}
  /\ csv_file = <<>>
  /\ base_url = <<>>
  /\ anchors = <<>>
  /\ links = {}
  /\ address_text = <<>>
  /\ prefecture = <<>>

CsvNext ==
  \/ SaveOpen
  \/ SaveWriteRow
  \/ SaveClose

CsvSpec == CsvInit /\ [][CsvNext]_vars

\* extract_prefecture applied to None or to a text of up to MaxAddressLen
\* characters.
PrefInit ==
  /\ InitOthers
  /\ prog = "extract_prefecture"
  /\ pc = "pref_start"
  /\ address_text \in {NoText} \cup UNION {[1..n -> Chars] : n \in 0..MaxAddressLen}
  /\ prefecture = <<>>
  /\ base_url = <<>>
  /\ anchors = <<>>
  /\ links = {}
  /\ rows = <<>>
  /\ csv_file = <<>>

PrefNext == ExtractPrefecture

PrefSpec == PrefInit /\ [][PrefNext]_vars

\* ================================================================= claims
\* A request whose response the fetcher accepts: status 200 for the crawl
\* fetcher, any 2xx status for the profile fetcher.
Accepted(variant, o) ==
  IF variant = "crawl"
    THEN o \in {"ok200", "ok200empty"}
    ELSE o \in {"ok200", "ok200empty", "ok204"}

Triangular(k) == (k * (k + 1)) \div 2

\* C1: in the profile fetcher a non-2xx status ends the call at once: as
\* soon as a bad status was answered the call has failed, the bad status
\* was the only one, and it caused no backoff sleep (one sleep per
\* transport error at most).
C1_BadStatusNotRetried ==
  (f_variant = "profile" /\ f_nBadStatus > 0) =>
    /\ f_pc = "raised"
    /\ f_nBadStatus = 1
    /\ f_requests = f_nTransport + 1
    /\ Len(f_sleeps) <= f_nTransport

C3_RetryThenSuccess ==
  (/\ f_requests >= 1
   /\ f_nBadStatus = 0
   /\ f_nTransport = f_requests - 1
   /\ Accepted(f_variant, f_last)) =>
    /\ f_pc = "returned"
    /\ f_result = BodyOf(f_last)
    /\ f_nTransport < MAX_RETRIES
    /\ SumSeq(f_sleeps) = BASE_BACKOFF_SEC * Triangular(f_nTransport)

\* A call has returned the markup at its last allowed request.
C3_Witness ==
  /\ f_pc = "returned"
  /\ f_result = Markup
  /\ f_nBadStatus = 0
  /\ f_nTransport = MAX_RETRIES - 1
  /\ f_requests = MAX_RETRIES

\* The sum of the counters of f over the URLs of S.
RECURSIVE SumCounts(_, _)
SumCounts(f, S) ==
  IF S = {} THEN 0
  ELSE LET u == CHOOSE x \in S : TRUE
       IN f[u] + SumCounts(f, S \ {u})

\* The number of fetch_html calls the crawl has made for pages of a role.
FetchedCount(role) == SumCounts(fetch_count[role], AllURLs)

\* C4: at every moment of a crawl the listing pages fetched, the page
\* counter and the visited listing URLs number at most max_listing_pages,
\* and the job pages fetched and the visited job URLs at most max_job_pages.
C4_PageBounds ==
  prog = "crawl" =>
    /\ listing_count <= max_listing_pages
    /\ Cardinality(visited_listing_urls) <= max_listing_pages
    /\ FetchedCount("listing") <= max_listing_pages
    /\ Cardinality(visited_job_urls) <= max_job_pages
    /\ FetchedCount("job") <= max_job_pages

\* Both limits are reached while an unvisited job link is still waiting.
C4_Witness ==
  /\ pc = "for"
  /\ max_job_pages >= 1
  /\ Cardinality(visited_job_urls) = max_job_pages
  /\ FetchedCount("job") = max_job_pages
  /\ listing_count = max_listing_pages
  /\ \E j \in job_links : j \notin visited_job_urls

\* One of the four reasons to stop holds for the listing URL at the head of
\* the while loop.
StopAtHead ==
  \/ listing_url = NoURL
  \/ listing_url \in visited_listing_urls
  \/ listing_count = max_listing_pages

\* C5: the listing loop stops exactly when the last page gave no next-page
\* URL, the next URL is already visited, max_listing_pages pages have been
\* processed, or the listing fetch failed; otherwise it goes on to fetch the
\* next-page URL.  The crawl ends nowhere else.
C5_LoopStops ==
  [][prog = "crawl" =>
       /\ (pc = "while" /\ StopAtHead) => pc' = "done"
       /\ (pc = "while" /\ ~StopAtHead) =>
            /\ pc' = "listing_fetching"
            /\ f_pc' = "loop"
            /\ f_url' = listing_url
       /\ (pc = "listing_fetching" /\ f_pc = "returned") =>
            (pc' = "done" <=> Falsy(f_result))
       /\ (pc # "done" /\ pc' = "done") => pc \in {"while", "listing_fetching"}
    ]_vars

\* The loop has gone on to fetch the next-page URL of the first page.
C5_Witness ==
  /\ pc = "listing_fetching"
  /\ listing_count = 2
  /\ f_url = listing_url
  /\ listing_url # start_listing_url

\* C6: every crawl run returns, whatever the links of the pages and the
\* results of the fetches.
C6_Terminates == (prog = "crawl") ~> (pc = "done")

\* A crawl has returned after its next-page link led back to a visited page.
C6_Witness ==
  /\ pc = "done"
  /\ stop_reason = "visited"
  /\ listing_count >= 1

\* C7: a failed listing fetch ends the run, which returns the registry as it
\* was; a failed job fetch leaves the registry as it was and the crawl goes
\* on with the remaining job links of the page and its next-page URL.
C7_FailurePolicy ==
  [][prog = "crawl" =>
       /\ (pc = "listing_fetching" /\ f_pc = "returned" /\ Falsy(f_result)) =>
            /\ pc' = "done"
            /\ company_infos' = company_infos
            /\ returned' = Values(company_infos)
       /\ (pc = "job_fetching" /\ f_pc = "returned" /\ Falsy(f_result)) =>
            /\ pc' = "for"
            /\ company_infos' = company_infos
            /\ job_links' = job_links
            /\ next_url' = next_url
            /\ current_listing_url' = current_listing_url
    ]_vars

\* A run has ended on a failed listing fetch and returned entries.
C7_Witness ==
  /\ pc = "done"
  /\ stop_reason = "fetch_failed"
  /\ returned # {}
  /\ returned = Values(company_infos)

\* C8: no step of the crawl changes a non-empty source_job_url or
\* source_listing_url of a registry entry, and no entry is removed.
C8_ProvenanceWriteOnce ==
  [][\A c \in DOMAIN company_infos :
       /\ c \in DOMAIN company_infos'
       /\ company_infos[c].source_job_url # NoURL =>
            company_infos'[c].source_job_url = company_infos[c].source_job_url
       /\ company_infos[c].source_listing_url # NoURL =>
            company_infos'[c].source_listing_url = company_infos[c].source_listing_url
    ]_vars

\* A company link found on one job page was merged into an entry that keeps
\* the job URL of another page.
C8_Witness ==
  /\ last_merge.cid # NoId
  /\ company_infos[last_merge.cid].source_job_url \notin {NoURL, last_merge.job_url}

\* C9: right after the merge of a company link the entry of its id holds
\* exactly the URL that was extracted from the job page.
C9_LaterUrlWins ==
  last_merge.cid # NoId =>
    /\ last_merge.cid \in DOMAIN company_infos
    /\ company_infos[last_merge.cid].company_url = last_merge.company_url

\* The merged URL replaced the canonical URL of an id that an earlier page
\* had registered.
C9_Witness ==
  /\ last_merge.cid # NoId
  /\ last_merge.company_url # CanonicalUrl(last_merge.cid)
  /\ company_infos[last_merge.cid].source_listing_url # last_merge.listing_url
  /\ company_infos[last_merge.cid].company_url = last_merge.company_url

\* C10: merging the same company link of the same job page twice gives the
\* registry that merging it once gives, from every registry of a crawl.
C10_MergeIdempotent ==
  \A j \in JobURLs, l \in ListingURLs, link \in CompanyLinks :
    LET company_url == extract_company_url_from_job_html(link, j)
        cid == PathId(company_url)
        once == Merge(company_infos, cid, company_url, j, l)
    IN cid # NoId => Merge(once, cid, company_url, j, l) = once

\* The crawl has just merged a link whose id no page had registered, and
\* merging it again would leave the registry as it is.
C10_Witness ==
  /\ last_merge.cid # NoId
  /\ last_merge.company_url.form = "relative"
  /\ company_infos[last_merge.cid].source_job_url = last_merge.job_url
  /\ Merge(company_infos, last_merge.cid, last_merge.company_url,
           last_merge.job_url, last_merge.listing_url) = company_infos

\* C11: every fetch of a crawl except the first follows a politeness sleep
\* that was performed after the fetch before it.
C11_SleepBetweenFetches ==
  prog = "crawl" => last_gap # "unslept"

\* C16: the company_url of every registry entry is the canonical URL built
\* from the id of the entry.
C16_CompanyUrlCanonical ==
  \A c \in DOMAIN company_infos :
    /\ company_infos[c].company_id = c
    /\ company_infos[c].company_url = CanonicalUrl(c)

\* C17: a finished call of either fetcher that made n requests has slept
\* n - 1 times, the i-th time for BASE_BACKOFF_SEC * i, and a call in which
\* every request failed made MAX_RETRIES requests.
C17_SleepsOnlyBetweenAttempts ==
  f_pc \in {"returned", "raised"} =>
    /\ Len(f_sleeps) = f_requests - 1
    /\ \A i \in 1..Len(f_sleeps) : f_sleeps[i] = BASE_BACKOFF_SEC * i
    /\ f_i >= MAX_RETRIES => f_requests = MAX_RETRIES

\* C18 (as stated): no URL is passed to fetch_html by the crawl twice.
C18_NoUrlFetchedTwice ==
  \A u \in AllURLs : fetch_count["listing"][u] + fetch_count["job"][u] <= 1

\* C18 (amended): a URL is fetched at most once as a listing page and at
\* most once as a job page, and it is in the visited set of that role from
\* the moment it is fetched.
C18_FetchedOncePerRole ==
  /\ \A u \in AllURLs :
       /\ fetch_count["listing"][u] <= 1
       /\ fetch_count["job"][u] <= 1
       /\ fetch_count["listing"][u] = 1 => u \in visited_listing_urls
       /\ fetch_count["job"][u] = 1 => u \in visited_job_urls
  /\ pc = "listing_fetching" => f_url \in visited_listing_urls
  /\ pc = "job_fetching" => f_url \in visited_job_urls

\* The second listing page lists a job link that was fetched from the first.
C18_Witness ==
  /\ pc = "for"
  /\ listing_count = 2
  /\ \E j \in job_links : j \in visited_job_urls /\ fetch_count["job"][j] = 1

\* The URLs of the calls of s that returned, in order.
SucceededUrls(s) ==
  LET ok == SelectSeq(s, LAMBDA a : a.ok) IN [i \in 1..Len(ok) |-> ok[i].url]

\* C14: scrape_many_company_pages calls scrape_company_page with the URLs of
\* its input in order, its results are the rows of the calls that returned,
\* in order, it sleeps once after every call, failed or not, and it returns
\* only after the last URL.
C14_SkipTolerant ==
  prog = "scrape" =>
    /\ Len(attempted) = s_idx - 1
    /\ Len(attempted) <= Len(urls)
    /\ \A i \in 1..Len(attempted) : attempted[i].url = urls[i]
    /\ [i \in 1..Len(results) |-> results[i].url] = SucceededUrls(attempted)
    /\ s_sleeps = Len(attempted)
    /\ pc = "s_fetching" => f_url = urls[s_idx]
    /\ pc = "s_done" => Len(attempted) = Len(urls)

\* A batch of two URLs has returned: the first failed and the second gave a row.
C14_Witness ==
  /\ prog = "scrape"
  /\ pc = "s_done"
  /\ Len(urls) = 2
  /\ ~attempted[1].ok
  /\ attempted[2].ok
  /\ Len(results) = 1

\* The crawl of the scenario has returned three entries, one per id, after
\* one listing page fetch and one job page fetch.
ScenarioDone ==
  /\ pc = "done"
  /\ FetchedCount("listing") = 1
  /\ FetchedCount("job") = 1
  /\ DOMAIN company_infos = ScenarioListingIds \cup {ScenarioThirdId}
  /\ returned = Values(company_infos)
  /\ Cardinality(returned) = 3

\* C13: the crawl of the scenario site terminates, having fetched exactly one
\* listing page and one job page, and returns exactly three registry
\* entries, one per id.
C13_Scenario ==
  /\ <>(pc = "done")
  /\ [](pc = "done" => ScenarioDone)
  /\ [](FetchedCount("listing") <= 1 /\ FetchedCount("job") <= 1)

\* The crawl of the scenario has ended, and the third id was known from the
\* path of the resolved company link only.
C13_Witness ==
  /\ site = "scenario"
  /\ ScenarioDone
  /\ company_infos[ScenarioThirdId].company_url.form = "relative"

\* C12: every URL extract_job_links_from_listing_html returns has the host
\* www.baitoru.com.
C12_HostPinned ==
  \A u \in links : u.host = BASE_DOMAIN

\* C15: when save_to_csv has returned for a non-empty list, the file holds
\* the header and one line per row, in order, each of 15 cells in the order
\* of FIELDS; a cell is the value of the row when the row has a value other
\* than None for the field, and the empty string otherwise. For an empty list
\* nothing is written.
C15_ExportProjection ==
  (prog = "save_to_csv" /\ pc = "csv_done") =>
    IF rows = <<>>
      THEN csv_file = <<>>
      ELSE /\ Len(FIELDS) = 15
           /\ Len(csv_file) = Len(rows) + 1
           /\ csv_file[1] = FIELDS
           /\ \A i \in 1..Len(rows) :
                /\ Len(csv_file[i + 1]) = 15
                /\ \A k \in 1..15 :
                     csv_file[i + 1][k] =
                       IF FIELDS[k] \in DOMAIN rows[i]
                            /\ rows[i][FIELDS[k]].type # "none"
                         THEN rows[i][FIELDS[k]].text
                         ELSE ""

\* Two rows were written: one lacks the name, one has the phone None, and
\* one has the value 0.
C15_Witness ==
  /\ prog = "save_to_csv"
  /\ pc = "csv_done"
  /\ Len(rows) = 2
  /\ \E i \in 1..2 : "name" \notin DOMAIN rows[i]
  /\ \E i \in 1..2 : "phone" \in DOMAIN rows[i] /\ rows[i]["phone"] = NoneValue
  /\ \E i \in 1..2 : "name" \in DOMAIN rows[i] /\ rows[i]["name"].type = "int"

\* The prefecture names that can be written in Chars, and the one of them
\* that occurs first in a text.
PrefectureNames == {Kanagawa, Chiba, Tokyo}
NamePositions(text) ==
  {i \in 1..Len(text) : \E nm \in PrefectureNames : StartsAt(text, nm, i)}
FirstName(text) ==
  LET first == CHOOSE i \in NamePositions(text) :
                 \A j \in NamePositions(text) : i <= j
  IN CHOOSE nm \in PrefectureNames : StartsAt(text, nm, first)

\* C19: for an address that contains a prefecture name, extract_prefecture
\* returns the prefecture name that occurs first in it.
C19_FirstPrefectureName ==
  (prog = "extract_prefecture" /\ pc = "pref_done"
     /\ address_text # NoText /\ NamePositions(address_text) # {}) =>
    prefecture = FirstName(address_text)

====
